---- MODULE Spec2Model ----
(***************************************************************************)
(* Model of the long-meeting summarisation pipeline of zoom-mom-bot        *)
(* (src/process_long_meeting.py): the chunker, the router, the per-chunk   *)
(* extraction loop with its accumulators, the final synthesis call and the *)
(* metadata it stamps.                                                     *)
(*                                                                         *)
(* A text is a sequence of characters (one-character strings).  The        *)
(* answers of the text-generation service are inputs of the model: every   *)
(* call draws its answer from a small set of answers.                      *)
(***************************************************************************)
EXTENDS Integers, Sequences, FiniteSets, TLC

\* ------------------------------------------------------------------ bounds

\* longest text given to a stand-alone chunk_transcript call
MaxLen == 5
\* largest max_words given to a stand-alone chunk_transcript call
MaxChunkArg == 3
\* length of the long key_points list a chunk answer may carry
BigKeyPoints == 11
\* length of the longest decisions / action_items / questions list of an answer
MaxItems == 2

\* largest max_retries given to transcribe_audio
MaxRetriesArg == 3

\* ------------------------------------------------------- program constants

\* transcribe_audio.py:49   def transcribe_audio(audio_file_path, max_retries=3)
DefaultMaxRetries == 3
\* transcribe_audio.py:72   if file_size_mb > 25
SizeLimitMB == 25

\* process_long_meeting.py:60   if word_count > 4000
Threshold == 4000
\* process_long_meeting.py:139  chunk_transcript(transcript_text, max_words=3000)
ChunkWords == 3000
\* process_long_meeting.py:198  chunk_summaries[:20]
KeyPointCap == 20

\* ------------------------------------------------------------------- text

\* what a call gives back: a value it returns, or an exception it raises
Returned(v) == [exc |-> "none", val |-> v]
Raised(e) == [exc |-> e, val |-> << >>]

WordChars == {"a", "b"}
Whitespace == {" ", "\n"}
Alphabet == WordChars \cup Whitespace

Min(a, b) == IF a < b THEN a ELSE b

\* all texts of at most n characters
TextsUpTo(n) == UNION {[1..k -> Alphabet] : k \in 0..n}

IsWordStart(s, p) == s[p] \notin Whitespace /\ (p = 1 \/ s[p - 1] \in Whitespace)

RECURSIVE WordEnd(_, _)
WordEnd(s, p) ==
    IF p = Len(s) \/ s[p + 1] \in Whitespace THEN p ELSE WordEnd(s, p + 1)

\* the words of s that start at a position of lo..hi, in order
RECURSIVE SplitRange(_, _, _)
SplitRange(s, lo, hi) ==
    IF lo > hi THEN << >>
    ELSE IF lo = hi
         THEN IF IsWordStart(s, lo) THEN << SubSeq(s, lo, WordEnd(s, lo)) >> ELSE << >>
         ELSE LET mid == (lo + hi) \div 2
              IN  SplitRange(s, lo, mid) \o SplitRange(s, mid + 1, hi)

\* str.split(): the maximal runs of non-whitespace characters, in order
Split(s) == SplitRange(s, 1, Len(s))

RECURSIVE JoinRange(_, _, _)
JoinRange(ws, lo, hi) ==
    IF lo > hi THEN << >>
    ELSE IF lo = hi THEN ws[lo]
         ELSE LET mid == (lo + hi) \div 2
              IN  JoinRange(ws, lo, mid) \o << " " >> \o JoinRange(ws, mid + 1, hi)

\* ' '.join(ws)
Join(ws) == JoinRange(ws, 1, Len(ws))

\* seq[a:b] for 0 <= a
Slice(seq, a, b) == SubSeq(seq, a + 1, Min(b, Len(seq)))

\* list(range(start, stop, step)) for step > 0
RECURSIVE RangeUp(_, _, _)
RangeUp(start, stop, step) ==
    IF start >= stop THEN << >> ELSE << start >> \o RangeUp(start + step, stop, step)

\* list(range(0, stop, step)) with stop >= 0: a zero step raises ValueError, a
\* negative step counts down from 0 and yields nothing
PyRange(stop, step) ==
    IF step = 0 THEN Raised("ValueError")
    ELSE IF step < 0 THEN Returned(<< >>)
    ELSE Returned(RangeUp(0, stop, step))

\* ---------------------------------------------------------------- chunker

\* mutant of ChunkOf: the slice loses its last word
ChunkOfShort(words, i, max_words) == Join(Slice(words, i, i + max_words - 1))

\* one iteration of the loop of chunk_transcript
ChunkOf(words, i, max_words) == Join(Slice(words, i, i + max_words))

\* mutant of ChunkStarts: the loop stops one iteration early
ChunkStartsEarly(n, max_words) ==
    LET r == PyRange(n, max_words)
    IN  IF r.exc # "none" \/ Len(r.val) <= 1 THEN r
        ELSE Returned(SubSeq(r.val, 1, Len(r.val) - 1))

\* range(0, len(words), max_words)
ChunkStarts(n, max_words) == PyRange(n, max_words)

chunk_transcript(transcript_text, max_words) ==
    LET words == Split(transcript_text)
        starts == ChunkStarts(Len(words), max_words)
    IN  IF starts.exc # "none" THEN starts
        ELSE Returned([k \in 1..Len(starts.val) |->
                          ChunkOf(words, starts.val[k], max_words)])

\* ------------------------------------------- answers of the text service

\* The value of one key of the JSON object a chunk call answers with: the key
\* is absent (or null, or an empty list: all falsy), a list of n entries, or a
\* truthy value that is no iterable (a non-zero number, true).
Absent == [t |-> "absent", n |-> 0]
ListOf(n) == [t |-> "list", n |-> n]
Scalar == [t |-> "scalar", n |-> 0]

Fields == {"key_points", "decisions", "action_items", "questions"}

Object(kp, d, a, q) ==
    [kind |-> "object", key_points |-> kp, decisions |-> d,
     action_items |-> a, questions |-> q]

\* client.chat.completions.create raises
ApiError == [Object(Absent, Absent, Absent, Absent) EXCEPT !.kind = "api_error"]
\* the call returns, json.loads of its content raises
Malformed == [Object(Absent, Absent, Absent, Absent) EXCEPT !.kind = "malformed"]

ChunkAnswers ==
    { ApiError, Malformed,
      Object(Absent, Absent, Absent, Absent),
      Object(ListOf(BigKeyPoints), ListOf(MaxItems), ListOf(MaxItems), ListOf(MaxItems)),
      Object(ListOf(1), ListOf(1), ListOf(0), Absent),
      Object(Scalar, ListOf(1), ListOf(1), ListOf(1)),
      Object(ListOf(1), Scalar, ListOf(1), ListOf(1)),
      Object(ListOf(1), ListOf(1), Scalar, ListOf(1)),
      Object(ListOf(1), ListOf(1), ListOf(1), Scalar) }

\* the answer of a call that asks for the whole minutes
SynthKinds == {"api_error", "malformed", "object"}

\* the k-th entry of a list answered for chunk i
Items(i, n) == [k \in 1..n |-> [seg |-> i, pos |-> k]]

\* `if chunk_result.get(key):`
Truthy(v) == v.t = "scalar" \/ (v.t = "list" /\ v.n > 0)

\* mutant of Extend: new entries are put in front
ExtendFront(list, items) == items \o list

\* list.extend(items)
Extend(list, items) == list \o items

\* mutant of CollectField: chunk_result[key] without the test of get
CollectFieldStrict(st, key, v, i) ==
    IF st.raised THEN st
    ELSE IF v.t # "list" THEN [st EXCEPT !.raised = TRUE]
    ELSE [st EXCEPT !.acc[key] = Extend(@, Items(i, v.n))]

\* one `if chunk_result.get(key): acc.extend(chunk_result[key])` of the try
\* block; extend of a value that is no iterable raises TypeError
CollectField(st, key, v, i) ==
    IF st.raised \/ ~Truthy(v) THEN st
    ELSE IF v.t = "scalar" THEN [st EXCEPT !.raised = TRUE]
    ELSE [st EXCEPT !.acc[key] = Extend(@, Items(i, v.n))]

\* the try block of the loop for chunk i with answer ans: the accumulators
\* after it, and whether it raised (and the except clause ran)
ProcessChunk(acc, ans, i) ==
    IF ans.kind # "object" THEN [acc |-> acc, raised |-> TRUE]
    ELSE LET s0 == [acc |-> acc, raised |-> FALSE]
             s1 == CollectField(s0, "key_points", ans.key_points, i)
             s2 == CollectField(s1, "decisions", ans.decisions, i)
             s3 == CollectField(s2, "action_items", ans.action_items, i)
         IN  CollectField(s3, "questions", ans.questions, i)

\* mutant of LoopControl: a chunk that raised ends the run
LoopAborts(raised) == IF raised THEN "done" ELSE "chunk_loop"

\* `except Exception: ... continue`: the loop goes on after a chunk that raised
LoopControl(raised) == "chunk_loop"

\* mutant of LoopExhausted: the loop ends one chunk early
LoopExhaustedEarly(i, chunk_list) == i >= Len(chunk_list)

\* `for i, chunk in enumerate(chunks, 1)` has no chunk i
LoopExhausted(i, chunk_list) == i > Len(chunk_list)

\* mutant of KeyPointsForSynthesis: no cap
KeyPointsUncapped(chunk_summaries) == chunk_summaries

\* chunk_summaries[:20]
KeyPointsForSynthesis(chunk_summaries) == Slice(chunk_summaries, 0, KeyPointCap)

\* mutant of IsLong: >= instead of >
IsLongInclusive(word_count) == word_count >= Threshold

\* `if word_count > 4000:`
IsLong(word_count) == word_count > Threshold

NoDoc == [doc |-> FALSE]

\* mutant of NormalMetadata: the wrong processing method
NormalMetadataWrong(duration, word_count) ==
    [generated_at |-> "now", duration |-> duration, word_count |-> word_count,
     processing_method |-> "chunked"]

NormalMetadata(duration, word_count) ==
    [generated_at |-> "now", duration |-> duration, word_count |-> word_count,
     processing_method |-> "normal"]

\* mutant of ChunkedMetadata: the chunk count is one short
ChunkedMetadataShort(duration, word_count, n_chunks) ==
    [generated_at |-> "now", duration |-> duration, word_count |-> word_count,
     chunks_processed |-> n_chunks - 1, processing_method |-> "chunked"]

ChunkedMetadata(duration, word_count, n_chunks) ==
    [generated_at |-> "now", duration |-> duration, word_count |-> word_count,
     chunks_processed |-> n_chunks, processing_method |-> "chunked"]

\* mutant of SynthesisResult: a failed synthesis falls back on the candidates
SynthesisFallback(kind, info, metadata) ==
    [doc |-> TRUE, body |-> IF kind = "object" THEN "minutes" ELSE info,
     metadata |-> metadata]

\* the try block of a call that asks for the whole minutes, and its except
\* clause: the minutes with their metadata, or None
SynthesisResult(kind, info, metadata) ==
    IF kind = "object"
    THEN [doc |-> TRUE, body |-> "minutes", metadata |-> metadata]
    ELSE NoDoc

\* ---------------------------------------------------------------- inputs

\* a text of n one-letter words separated by single spaces
MkWords(n) ==
    LET f == [p \in 1..(2 * n - 1) |->
                 IF p % 2 = 0 THEN " " ELSE IF p % 4 = 1 THEN "a" ELSE "b"]
    IN  SubSeq(f, 1, 2 * n - 1)

WordCounts == {1, Threshold \div 2, Threshold, Threshold + 1, 3 * ChunkWords}

\* the texts of the transcript files: empty, blank, and of the word counts above
TranscriptTexts == {<< >>, << " " >>} \cup {MkWords(n) : n \in WordCounts}

Durations == {0, 5400}

EmptyLists ==
    [key_points |-> << >>, decisions |-> << >>, action_items |-> << >>,
     questions |-> << >>]

\* ------------------------------------------------------- aggregation

\* longest sequence of chunk answers the aggregation is run on by itself
MaxSegments == 2

\* number of times the aggregation is run on the same answers
MaxRuns == 2

\* mutant of InitialAccumulators: the lists of the previous run are kept
CarriedAccumulators(previous) == previous

\* lines 142-145: the four lists are new empty lists in every run, whatever a
\* previous run left
InitialAccumulators(previous) == EmptyLists

\* the loop of lines 148-192 over the answers from[i..]: the four lists after it
RECURSIVE AggregateFrom(_, _, _)
AggregateFrom(acc, seq, i) ==
    IF i > Len(seq) THEN acc
    ELSE AggregateFrom(ProcessChunk(acc, seq[i], i).acc, seq, i + 1)

\* lines 142-192 of a run that follows a run which left the lists `previous`
Aggregate(previous, seq) == AggregateFrom(InitialAccumulators(previous), seq, 1)

\* a complete answer, and the answers in which every field is absent, an empty
\* list or a list of one entry
FullAnswer ==
    Object(ListOf(BigKeyPoints), ListOf(MaxItems), ListOf(MaxItems), ListOf(MaxItems))

PartialValues == {Absent, ListOf(0), ListOf(1)}

PartialAnswers ==
    {Object(kp, d, a, q) : kp \in PartialValues, d \in PartialValues,
                           a \in PartialValues, q \in PartialValues}

RECURSIVE SeqsUpTo(_, _)
SeqsUpTo(S, n) ==
    IF n = 0 THEN {<< >>}
    ELSE LET shorter == SeqsUpTo(S, n - 1)
         IN  shorter \cup {Append(q, x) : q \in shorter, x \in S}

\* ------------------------------------------------------- transcribe_audio

\* what one attempt gets from the transcription service: a transcript with
\* text, a transcript without, or an exception whose message names 500/503,
\* names 429, names 413, or names none of them (401, 400, ...)
WhisperAnswers ==
    {"text", "empty", "server_error", "rate_limit", "too_large", "permanent"}

\* the suffix line 139 gives to Path.with_suffix
TranscriptSuffix ==
    << "_", "t", "r", "a", "n", "s", "c", "r", "i", "p", "t", ".", "j", "s", "o", "n" >>

\* mutant of OutputSuffix: a suffix that starts with a dot
DottedSuffix == << "." >> \o TranscriptSuffix

OutputSuffix == TranscriptSuffix

\* Path.with_suffix(suffix) raises ValueError for a suffix that is not empty and
\* does not start with a dot, and for the dot alone
WithSuffixRaises(suffix) ==
    (suffix # << >> /\ suffix[1] # ".") \/ suffix = << "." >>

\* 2 ** n
RECURSIVE Pow2(_)
Pow2(n) == IF n = 0 THEN 1 ELSE 2 * Pow2(n - 1)

\* `attempt < max_retries - 1`
CanRetry(attempt, max_retries) == attempt < max_retries - 1

\* what the try block makes of a transcript: "empty" when it has no text (lines
\* 100-106), "result" when the result is built, saved and returned, and
\* "exception" when line 139 raises
TryBlock(answer) ==
    IF answer = "empty" THEN "empty"
    ELSE IF WithSuffixRaises(OutputSuffix) THEN "exception"
    ELSE "result"

\* how the except clause reads the message: the exception of the service by
\* the code it names, the ValueError of line 139 as one that names none
ErrorClass(answer) == IF answer = "text" THEN "permanent" ELSE answer

NoDelay == -1

Retry(delay) == [then |-> "retry", delay |-> delay]
ReturnNone == [then |-> "none", delay |-> NoDelay]
ReturnResult == [then |-> "result", delay |-> NoDelay]

\* the except clause, lines 159-183
ExceptClause(class, attempt, max_retries) ==
    IF class = "server_error" /\ CanRetry(attempt, max_retries)
        THEN Retry(Pow2(attempt))
    ELSE IF class = "rate_limit" /\ CanRetry(attempt, max_retries)
        THEN Retry(5 * (attempt + 1))
    ELSE IF class = "too_large" THEN ReturnNone
    ELSE IF attempt = max_retries - 1 THEN ReturnNone
    ELSE Retry(NoDelay)

\* one iteration of the loop, lines 77-183, with this answer of the service
Iteration(answer, attempt, max_retries) ==
    IF answer \in {"text", "empty"}
    THEN LET out == TryBlock(answer)
         IN  IF out = "empty"
             THEN IF CanRetry(attempt, max_retries) THEN Retry(Pow2(attempt))
                  ELSE ReturnNone
             ELSE IF out = "result" THEN ReturnResult
             ELSE ExceptClause(ErrorClass(answer), attempt, max_retries)
    ELSE ExceptClause(ErrorClass(answer), attempt, max_retries)

\* mutant of NextAttempt: a retry that is not counted
NextAttemptStuck(attempt) == attempt

\* the next element of range(max_retries)
NextAttempt(attempt) == attempt + 1

\* the file given to transcribe_audio: audio or video by its extension, whether
\* the audio file is there (a video: whether ffmpeg made it), its size in MB
AudioSuffixes == {".mp3", ".wav", ".m4a", ".webm", ".ogg"}

\* the path convert_to_audio_if_needed returns when ffmpeg succeeds
AudioPath(file_path) ==
    IF file_path.suffix \in AudioSuffixes THEN file_path
    ELSE [file_path EXCEPT !.suffix = ".mp3"]

\* the stems the file names have: "meeting", "meeting.original", "mp3"
Stems ==
    { << "m", "e", "e", "t", "i", "n", "g" >>,
      << "m", "e", "e", "t", "i", "n", "g", ".", "o", "r", "i", "g", "i", "n", "a", "l" >>,
      << "m", "p", "3" >> }

\* the files transcribe_audio is called with, by Path.stem and Path.suffix
InputPaths == [stem : Stems, suffix : {".mp3", ".wav", ".mp4"}]

\* str.endswith
EndsWith(str, tail) ==
    Len(str) >= Len(tail) /\ SubSeq(str, Len(str) - Len(tail) + 1, Len(str)) = tail

\* lines 150-153: the test that stands before os.remove(audio_file_path)
IsTemporary(audio_path) ==
    /\ audio_path.suffix = ".mp3"
    /\ ~EndsWith(audio_path.stem, << ".", "o", "r", "i", "g", "i", "n", "a", "l" >>)
    /\ ~EndsWith(audio_path.stem, << "m", "p", "3" >>)

AudioInputs ==
    {i \in [ext : {"audio", "video"}, path : InputPaths, available : BOOLEAN,
            size_mb : {1, SizeLimitMB, SizeLimitMB + 1}] :
        i.ext = "audio" <=> i.path.suffix \in AudioSuffixes}

\* lines 138-155: the transcript is written next to the audio file, and the
\* audio file removed when the test before os.remove holds
AfterSuccess(file_set, audio_path) ==
    (file_set \cup {[audio_path EXCEPT !.suffix = "_transcript.json"]})
        \ (IF IsTemporary(audio_path) THEN {audio_path} ELSE {})

\* the files there are when transcribe_audio is called
FilesAtCall(input) ==
    IF input.ext = "video" \/ input.available THEN {input.path} ELSE {}

\* lines 65-75: the audio file is there and not over the size limit
Prepared(input) == input.available /\ ~(input.size_mb > SizeLimitMB)

\* ------------------------------------------------------- the callers of transcribe_audio

MeetingCallers == {"process_meeting_complete", "process_audio_file"}

\* what the language model answers to generate_mom, and what SendGrid does
\* with the mail
Environments ==
    [llm : {"object", "api_error", "malformed"}, mail : {"success", "error"}]

\* mutant of TranscriptionFailed: the result of transcribe_audio is not looked at
TranscriptionFailedIgnored(transcript_result) == FALSE

\* mutant of TranscriptionFailed: the test the wrong way round
TranscriptionFailedInverted(transcript_result) == transcript_result # "None"

\* `if not transcript_result`
TranscriptionFailed(transcript_result) == transcript_result = "None"

\* generate_mom: the parsed object, None when the call raises or the answer
\* does not parse
generate_mom(answer) == IF answer = "object" THEN "mom_data" ELSE "None"

\* send_mom_email: the status of the dict it returns
send_mom_email(outcome) == [status |-> outcome]

\* process_meeting.py, lines 28-32
NoStatus ==
    [transcription |-> "None", mom_generation |-> "None", email |-> "None"]

\* app.py, lines 73-80
NoSession ==
    [processed_meetings |-> << >>, current_mom |-> "None",
     current_transcript |-> "None"]

\* mutant of AfterTranscription: a failed transcription is put in the history
AfterTranscriptionLogged(results, session, transcript_result) ==
    IF TranscriptionFailed(transcript_result)
    THEN [pc |-> "returned",
          results |-> [results EXCEPT !.error = "Transcription failed"],
          session |-> [session EXCEPT !.processed_meetings =
                          Append(@, [mom |-> "None", transcript |-> "None"])]]
    ELSE [pc |-> "generate",
          results |-> [results EXCEPT !.transcript = transcript_result],
          session |-> session]

\* app.py, lines 121-141, after transcribe_audio has returned
AfterTranscription(results, session, transcript_result) ==
    IF TranscriptionFailed(transcript_result)
    THEN [pc |-> "returned",
          results |-> [results EXCEPT !.error = "Transcription failed"],
          session |-> session]
    ELSE [pc |-> "generate",
          results |-> [results EXCEPT !.transcript = transcript_result],
          session |-> session]

\* app.py, lines 103-110
NoResults ==
    [success |-> FALSE, transcript |-> "None", mom |-> "None", error |-> "None"]

\* ------------------------------------------------------- uploads of the app

\* two sessions of the app, each with the recording of its own meeting
Runs == {1, 2}

\* the names the uploaded files can have; every file is in uploads/
UploadNames ==
    {[stem |-> "a", suffix |-> ".mp3"], [stem |-> "a", suffix |-> ".mp4"],
     [stem |-> "b", suffix |-> ".mp3"]}

\* the files of uploads/
UploadPaths == [stem : {"a", "b"}, suffix : {".mp3", ".mp4"}]

\* os.path.join("uploads", uploaded_file.name)
UploadPath(name) == name

NoFile == 0

\* the caller has not asked to cancel
NotCancelled == -1

\* ------------------------------------------------------- paths of the transcript and the minutes

\* str.replace(old, new): every occurrence of old, from the left, without overlap
RECURSIVE Replace(_, _, _)
Replace(str, old, new) ==
    IF Len(str) < Len(old) THEN str
    ELSE IF SubSeq(str, 1, Len(old)) = old
         THEN new \o Replace(SubSeq(str, Len(old) + 1, Len(str)), old, new)
         ELSE << str[1] >> \o Replace(SubSeq(str, 2, Len(str)), old, new)

UploadsDir == << "u", "p", "l", "o", "a", "d", "s", "/" >>
TranscriptsDir == << "t", "r", "a", "n", "s", "c", "r", "i", "p", "t", "s", "/" >>
MomSuffix == << "_", "m", "o", "m", ".", "j", "s", "o", "n" >>
DotMp3 == << ".", "m", "p", "3" >>
DotWebm == << ".", "w", "e", "b", "m" >>
DotWav == << ".", "w", "a", "v" >>
DotM4a == << ".", "m", "4", "a" >>
DotMp4 == << ".", "m", "p", "4" >>
DotAvi == << ".", "a", "v", "i" >>
DotMov == << ".", "m", "o", "v" >>

\* app.py, line 298: the types the uploader accepts
UploadTypes == {DotMp3, DotWav, DotM4a, DotWebm, DotMp4, DotAvi, DotMov}

\* the stems of the file names: "m", "q1", "m.wav", "uploads"
UploadStems ==
    { << "m" >>, << "q", "1" >>, << "m" >> \o DotWav,
      << "u", "p", "l", "o", "a", "d", "s" >> }

DotJson == << ".", "j", "s", "o", "n" >>

\* the callers of generate_mom: the app, and a script that names the transcript
\* file itself (test_sample_flow.py, line 10)
PathCallers == {"process_audio_file", "script"}

\* save_uploaded_file: os.path.join("uploads", uploaded_file.name)
SavedAs(stem, type) == UploadsDir \o stem \o type

\* app.py, line 134
AppTranscriptFile(file_path) ==
    Replace(Replace(Replace(Replace(Replace(file_path,
        UploadsDir, TranscriptsDir),
        DotMp3, TranscriptSuffix),
        DotWebm, TranscriptSuffix),
        DotWav, TranscriptSuffix),
        DotM4a, TranscriptSuffix)

\* generate_mom.py, line 96
MomOutputFile(transcript_file) == Replace(transcript_file, TranscriptSuffix, MomSuffix)

\* open(path, "w") and json.dump: the file holds this and nothing else
WriteFile(store, path, holds) ==
    {e \in store : e.path # path} \cup {[path |-> path, holds |-> holds]}

\* ------------------------------------------------------- send_mom_email

\* SENDGRID_API_KEY and SENDGRID_FROM_EMAIL: set or not
MailConfigs == [api_key : BOOLEAN, from_email : BOOLEAN]

\* mom_data: None, or a dict whose action_items are absent, dicts or strings
\* and whose metadata.generated_at is absent, a string or a number
MomInputs ==
    {[dict |-> FALSE, action_items |-> "absent", generated_at |-> "absent"]}
    \cup [dict : {TRUE}, action_items : {"absent", "dicts", "strings"},
          generated_at : {"absent", "string", "number"}]

\* to_emails: one address, a list of addresses, None
RecipientInputs == {"string", "list", "None"}

\* what sg.send does
MailServices == {"accepts", "rejects"}

\* create_mom_html(mom_data), lines 30-41 and 214-222: the attribute errors
CreateHtmlRaises(mom_data) ==
    \/ ~mom_data.dict
    \/ mom_data.generated_at = "number"
    \/ mom_data.action_items = "strings"

\* lines 286-304, between the two tests and the try block: what is raised there
BeforeTry(to_emails, mom_data) ==
    IF CreateHtmlRaises(mom_data) THEN Raised("AttributeError")
    ELSE IF to_emails = "None" THEN Raised("TypeError")
    ELSE Returned("html")

ErrorStatus(message) == Returned([status |-> "error", message |-> message])
SuccessStatus == Returned([status |-> "success", message |-> "Email sent successfully"])

\* ------------------------------------------------------------------ state

VARIABLES
    c_pc,      \* stand-alone chunker call: "call" before, "returned" after
    c_text,    \* its transcript_text
    c_max,     \* its max_words
    c_out,     \* what it returned (a list of chunks) or the exception raised
    pc,               \* where generate_mom_for_long_meeting is
    transcript_data,  \* the content of the transcript file: text and duration
    n_words,          \* the number of words of that text
    word_count,       \* len(transcript_text.split()), once computed
    dispatched,       \* the function the router called
    chunks,           \* generate_mom_chunked: the chunks
    idx,              \* the chunk the loop is at (from 1)
    chunk_summaries,  \* the four accumulators of the loop
    all_decisions,
    all_action_items,
    all_questions,
    answers,          \* the answer each chunk call made so far got
    calls,            \* the calls to the text service so far, in order
    combined_info,    \* the candidates put into the final prompt
    synth_answer,     \* the kind of answer the call for the minutes got
    result,           \* what generate_mom_for_long_meeting returned
    cancel_at,        \* the number of calls made when the caller asked to cancel
    t_pc,             \* where transcribe_audio is
    t_input,          \* the file it is given
    t_max,            \* max_retries
    t_attempt,        \* attempt, the loop variable
    t_log,            \* the answer each call of the service got, in order
    t_delays,         \* the time.sleep calls so far, in order
    t_result,         \* what transcribe_audio returned
    t_files,          \* the files there are: the input, the converted audio, the transcript
    m_caller,         \* the function that called transcribe_audio
    m_pc,             \* where that function is
    m_env,            \* what the language model and the mail service will answer
    m_result,         \* the dict the function returns
    m_calls,          \* its calls of generate_mom and send_mom_email, in order
    m_session,        \* st.session_state of the app
    runs,             \* of each session: the upload's name, where the run is,
                      \* its attempt, the recordings it sent to the service
    files,            \* of each file of uploads/: the meeting whose recording it holds
    ag_answers,       \* the chunk answers the aggregation is run on
    ag_outputs,       \* the four lists each run of the aggregation ended with
    p_pc,             \* where the derivation of the paths is
    p_caller,         \* the function that derives transcript_file
    p_file_path,      \* the path of the recording
    p_transcript_file,\* the path generate_mom is called with
    p_output_file,    \* the path generate_mom writes the minutes to
    p_store,          \* the files written, each with what it holds
    e_pc,             \* where send_mom_email is
    e_config,         \* the settings of the mail service
    e_mom,            \* mom_data
    e_to,             \* to_emails
    e_service,        \* what the mail service does with a mail
    e_sends,          \* the calls of sg.send
    e_out             \* what send_mom_email returned or raised

chunker_vars == << c_pc, c_text, c_max, c_out >>

pipeline_vars ==
    << pc, transcript_data, n_words, word_count, dispatched, chunks, idx,
       chunk_summaries, all_decisions, all_action_items, all_questions,
       answers, calls, combined_info, synth_answer, result, cancel_at >>

transcribe_vars ==
    << t_pc, t_input, t_max, t_attempt, t_log, t_delays, t_result, t_files >>

meeting_vars == << m_caller, m_pc, m_env, m_result, m_calls, m_session >>

run_vars == << runs, files >>

aggregate_vars == << ag_answers, ag_outputs >>

path_vars ==
    << p_pc, p_caller, p_file_path, p_transcript_file, p_output_file, p_store >>

email_vars == << e_pc, e_config, e_mom, e_to, e_service, e_sends, e_out >>

vars ==
    << chunker_vars, pipeline_vars, transcribe_vars, meeting_vars, run_vars,
       aggregate_vars, path_vars, email_vars >>

other_than_paths ==
    << chunker_vars, pipeline_vars, transcribe_vars, meeting_vars, run_vars,
       aggregate_vars, email_vars >>

other_than_email ==
    << chunker_vars, pipeline_vars, transcribe_vars, meeting_vars, run_vars,
       aggregate_vars, path_vars >>

PipelineIdle ==
    /\ pc = "idle"
    /\ transcript_data = [text |-> << >>, duration |-> 0]
    /\ n_words = 0 /\ word_count = 0 /\ dispatched = "none"
    /\ chunks = << >> /\ idx = 1
    /\ chunk_summaries = << >> /\ all_decisions = << >>
    /\ all_action_items = << >> /\ all_questions = << >>
    /\ answers = << >> /\ calls = << >>
    /\ combined_info = EmptyLists /\ synth_answer = "none"
    /\ result = NoDoc
    /\ cancel_at = NotCancelled

ChunkerIdle ==
    /\ c_pc = "idle" /\ c_text = << >> /\ c_max = 1 /\ c_out = Returned(<< >>)

TranscribeIdle ==
    /\ t_pc = "idle"
    /\ t_input = [ext |-> "audio", path |-> [stem |-> << >>, suffix |-> ".mp3"],
                  available |-> FALSE, size_mb |-> 1]
    /\ t_max = 0 /\ t_attempt = 0
    /\ t_log = << >> /\ t_delays = << >> /\ t_result = "None"
    /\ t_files = {}

RunsIdle ==
    /\ runs = [r \in Runs |-> [name |-> [stem |-> "a", suffix |-> ".mp3"],
                               pc |-> "idle", attempt |-> 0, sent |-> << >>]]
    /\ files = [f \in UploadPaths |-> NoFile]

AggregateIdle == ag_answers = << >> /\ ag_outputs = << >>

EmailIdle ==
    /\ e_pc = "idle"
    /\ e_config = [api_key |-> FALSE, from_email |-> FALSE]
    /\ e_mom = [dict |-> FALSE, action_items |-> "absent", generated_at |-> "absent"]
    /\ e_to = "None" /\ e_service = "accepts" /\ e_sends = 0
    /\ e_out = Returned("nothing")

PathsIdle ==
    /\ p_pc = "idle" /\ p_caller = "none" /\ p_file_path = << >>
    /\ p_transcript_file = << >> /\ p_output_file = << >> /\ p_store = {}

MeetingIdle ==
    /\ m_caller = "none" /\ m_pc = "idle"
    /\ m_env = [llm |-> "object", mail |-> "success"]
    /\ m_result = NoStatus /\ m_calls = << >>
    /\ m_session = NoSession

\* ------------------------------------------- stand-alone chunk_transcript

ChunkInit ==
    /\ c_pc = "call"
    /\ c_text \in TextsUpTo(MaxLen)
    /\ c_max \in (-1)..MaxChunkArg
    /\ c_out = Returned(<< >>)
    /\ PipelineIdle
    /\ TranscribeIdle
    /\ MeetingIdle
    /\ RunsIdle
    /\ AggregateIdle
    /\ PathsIdle
    /\ EmailIdle

CallChunk ==
    /\ c_pc = "call"
    /\ c_out' = chunk_transcript(c_text, c_max)
    /\ c_pc' = "returned"
    /\ UNCHANGED << c_text, c_max, pipeline_vars, transcribe_vars, meeting_vars, run_vars, aggregate_vars, path_vars, email_vars >>

ChunkNext == CallChunk

SpecChunk == ChunkInit /\ [][ChunkNext]_vars

\* --------------------------------------- generate_mom_for_long_meeting

Init ==
    /\ ChunkerIdle
    /\ TranscribeIdle
    /\ MeetingIdle
    /\ RunsIdle
    /\ AggregateIdle
    /\ PathsIdle
    /\ EmailIdle
    /\ pc = "route"
    /\ transcript_data \in [text : TranscriptTexts, duration : Durations]
    /\ n_words = Len(Split(transcript_data.text))
    /\ word_count = 0 /\ dispatched = "none"
    /\ chunks = << >> /\ idx = 1
    /\ chunk_summaries = << >> /\ all_decisions = << >>
    /\ all_action_items = << >> /\ all_questions = << >>
    /\ answers = << >> /\ calls = << >>
    /\ combined_info = EmptyLists /\ synth_answer = "none"
    /\ result = NoDoc
    /\ cancel_at = NotCancelled

\* generate_mom_for_long_meeting up to the first call of the text service:
\* an empty text returns None; otherwise the word count picks the function,
\* and generate_mom_chunked splits the text and empties its accumulators.
\* The text is never modified, so the len(transcript_text.split()) of the
\* metadata (lines 120 and 238) is the word_count of line 53.
Route ==
    /\ pc = "route"
    /\ LET transcript_text == transcript_data.text
       IN  IF transcript_text = << >>
           THEN /\ pc' = "done"
                /\ UNCHANGED << word_count, dispatched, chunks >>
           ELSE LET wc == Len(Split(transcript_text))
                IN  /\ word_count' = wc
                    /\ IF IsLong(wc)
                       THEN /\ dispatched' = "generate_mom_chunked"
                            /\ chunks' = chunk_transcript(transcript_text, ChunkWords).val
                            /\ pc' = "chunk_loop"
                       ELSE /\ dispatched' = "generate_mom_normal"
                            /\ pc' = "normal_call"
                            /\ UNCHANGED chunks
    /\ UNCHANGED << transcript_data, n_words, idx, chunk_summaries, all_decisions,
                    all_action_items, all_questions, answers, calls,
                    combined_info, synth_answer, result, cancel_at, chunker_vars, transcribe_vars, meeting_vars, run_vars, aggregate_vars, path_vars, email_vars >>

\* generate_mom_normal: one call on the whole transcript
NormalCall(kind) ==
    /\ pc = "normal_call"
    /\ calls' = Append(calls, [op |-> "minutes", seg |-> 0])
    /\ synth_answer' = kind
    /\ result' = SynthesisResult(kind, transcript_data.text,
                     NormalMetadata(transcript_data.duration, word_count))
    /\ pc' = "done"
    /\ UNCHANGED << transcript_data, n_words, word_count, dispatched, chunks, idx,
                    chunk_summaries, all_decisions, all_action_items,
                    all_questions, answers, combined_info, cancel_at, chunker_vars, transcribe_vars, meeting_vars, run_vars, aggregate_vars, path_vars, email_vars >>

\* one iteration of the loop of generate_mom_chunked: the call for chunk idx
\* gets answer ans
ChunkStep(ans) ==
    /\ pc = "chunk_loop"
    /\ ~LoopExhausted(idx, chunks)
    /\ LET acc == [key_points |-> chunk_summaries, decisions |-> all_decisions,
                   action_items |-> all_action_items, questions |-> all_questions]
           out == ProcessChunk(acc, ans, idx)
       IN  /\ chunk_summaries' = out.acc.key_points
           /\ all_decisions' = out.acc.decisions
           /\ all_action_items' = out.acc.action_items
           /\ all_questions' = out.acc.questions
           /\ pc' = LoopControl(out.raised)
    /\ calls' = Append(calls, [op |-> "extract", seg |-> idx])
    /\ answers' = Append(answers, ans)
    /\ idx' = idx + 1
    /\ UNCHANGED << transcript_data, n_words, word_count, dispatched, chunks,
                    combined_info, synth_answer, result, cancel_at, chunker_vars, transcribe_vars, meeting_vars, run_vars, aggregate_vars, path_vars, email_vars >>

\* generate_mom_chunked after the loop: the candidates go into the final
\* prompt, and the call for the minutes gets an answer of this kind
SynthCall(kind) ==
    /\ pc = "chunk_loop"
    /\ LoopExhausted(idx, chunks)
    /\ LET info == [key_points |-> KeyPointsForSynthesis(chunk_summaries),
                    decisions |-> all_decisions,
                    action_items |-> all_action_items,
                    questions |-> all_questions]
       IN  /\ combined_info' = info
           /\ result' = SynthesisResult(kind, info,
                            ChunkedMetadata(transcript_data.duration, word_count,
                                            Len(chunks)))
    /\ calls' = Append(calls, [op |-> "synthesize", seg |-> 0])
    /\ synth_answer' = kind
    /\ pc' = "done"
    /\ UNCHANGED << transcript_data, n_words, word_count, dispatched, chunks, idx,
                    chunk_summaries, all_decisions, all_action_items,
                    all_questions, answers, cancel_at, chunker_vars, transcribe_vars, meeting_vars, run_vars, aggregate_vars, path_vars, email_vars >>

\* the caller of generate_mom_chunked(transcript_data, transcript_text) asks,
\* between two calls, to cancel the run; the function takes no argument and
\* reads no state that could tell it
RequestCancel ==
    /\ pc = "chunk_loop"
    /\ cancel_at = NotCancelled
    /\ cancel_at' = Len(calls)
    /\ UNCHANGED << pc, transcript_data, n_words, word_count, dispatched, chunks,
                    idx, chunk_summaries, all_decisions, all_action_items,
                    all_questions, answers, calls, combined_info, synth_answer,
                    result, chunker_vars, transcribe_vars, meeting_vars, run_vars, aggregate_vars, path_vars, email_vars >>

Next ==
    \/ Route
    \/ RequestCancel
    \/ \E kind \in SynthKinds : NormalCall(kind)
    \/ \E ans \in ChunkAnswers : ChunkStep(ans)
    \/ \E kind \in SynthKinds : SynthCall(kind)

Spec == Init /\ [][Next]_vars

\* ------------------------------------------------------- transcribe_audio

TStart(max_retries) ==
    /\ t_pc = "prepare"
    /\ t_input \in AudioInputs
    /\ t_max = max_retries
    /\ t_attempt = 0
    /\ t_log = << >> /\ t_delays = << >> /\ t_result = "None"
    /\ t_files = FilesAtCall(t_input)

TranscribeInit ==
    /\ ChunkerIdle
    /\ PipelineIdle
    /\ MeetingIdle
    /\ RunsIdle
    /\ AggregateIdle
    /\ PathsIdle
    /\ EmailIdle
    /\ \E m \in 0..MaxRetriesArg : TStart(m)

\* lines 61-77: the file is prepared and the loop entered, or None returned
TPrepare ==
    /\ t_pc = "prepare"
    /\ t_pc' = IF Prepared(t_input) /\ t_attempt < t_max THEN "attempt" ELSE "done"
    /\ t_files' = IF t_input.ext = "video" /\ t_input.available
                  THEN t_files \cup {AudioPath(t_input.path)} ELSE t_files
    /\ UNCHANGED << t_input, t_max, t_attempt, t_log, t_delays, t_result >>

\* one iteration of the loop: the call of the service gets this answer
TAttempt(answer) ==
    /\ t_pc = "attempt"
    /\ t_log' = Append(t_log, answer)
    /\ LET out == Iteration(answer, t_attempt, t_max)
       IN  /\ t_delays' = IF out.delay = NoDelay THEN t_delays
                          ELSE Append(t_delays, out.delay)
           /\ IF out.then = "retry"
              THEN /\ t_attempt' = NextAttempt(t_attempt)
                   /\ t_pc' = IF NextAttempt(t_attempt) < t_max THEN "attempt" ELSE "done"
                   /\ UNCHANGED t_result
              ELSE /\ t_pc' = "done"
                   /\ t_result' = IF out.then = "result" THEN "result" ELSE "None"
                   /\ UNCHANGED t_attempt
           /\ t_files' = IF out.then = "result"
                         THEN AfterSuccess(t_files, AudioPath(t_input.path))
                         ELSE t_files
    /\ UNCHANGED << t_input, t_max >>

TranscribeStep ==
    \/ TPrepare
    \/ \E answer \in WhisperAnswers : TAttempt(answer)

TranscribeNext ==
    /\ TranscribeStep
    /\ UNCHANGED << chunker_vars, pipeline_vars, meeting_vars, run_vars, aggregate_vars, path_vars, email_vars >>

\* the loop runs for as long as it can: a call of the service returns or raises
SpecTranscribe ==
    TranscribeInit /\ [][TranscribeNext]_vars /\ WF_vars(TranscribeNext)

\* ------------------------------------------------------- the callers of transcribe_audio

\* process_meeting_complete(audio_file, recipient_emails): after
\* transcribe_audio(audio_file) has returned, lines 36-43; generate_mom, lines
\* 45-53; send_mom_email, lines 55-80
process_meeting_complete ==
    /\ m_caller = "process_meeting_complete"
    /\ CASE m_pc = "transcribe" /\ t_pc = "done" ->
                /\ UNCHANGED m_calls
                /\ IF TranscriptionFailed(t_result)
                   THEN m_pc' = "returned" /\ UNCHANGED m_result
                   ELSE /\ m_pc' = "generate"
                        /\ m_result' = [m_result EXCEPT !.transcription = "success"]
         [] m_pc = "generate" ->
                /\ m_calls' = Append(m_calls, "generate_mom")
                /\ IF generate_mom(m_env.llm) = "None"
                   THEN m_pc' = "returned" /\ UNCHANGED m_result
                   ELSE /\ m_pc' = "email"
                        /\ m_result' = [m_result EXCEPT !.mom_generation = "success"]
         [] m_pc = "email" ->
                /\ m_calls' = Append(m_calls, "send_mom_email")
                /\ m_result' =
                       [m_result EXCEPT !.email =
                           IF send_mom_email(m_env.mail).status = "success"
                           THEN "success" ELSE "failed"]
                /\ m_pc' = "returned"
         [] OTHER -> FALSE
    /\ UNCHANGED << m_caller, m_env, m_session >>

\* app.process_audio_file(file_path, meeting_title): after
\* transcribe_audio(file_path) has returned, lines 121-141; generate_mom and
\* the rest, lines 147-184
process_audio_file ==
    /\ m_caller = "process_audio_file"
    /\ CASE m_pc = "transcribe" /\ t_pc = "done" ->
                LET out == AfterTranscription(m_result, m_session, t_result)
                IN  /\ UNCHANGED m_calls
                    /\ m_pc' = out.pc
                    /\ m_result' = out.results
                    /\ m_session' = out.session
         [] m_pc = "generate" ->
                /\ m_calls' = Append(m_calls, "generate_mom")
                /\ m_pc' = "returned"
                /\ IF generate_mom(m_env.llm) = "None"
                   THEN /\ m_result' = [m_result EXCEPT !.error = "MOM generation failed"]
                        /\ UNCHANGED m_session
                   ELSE /\ m_result' = [m_result EXCEPT
                                            !.mom = generate_mom(m_env.llm),
                                            !.success = TRUE]
                        /\ m_session' =
                               [processed_meetings |->
                                    Append(m_session.processed_meetings,
                                           [mom |-> generate_mom(m_env.llm),
                                            transcript |-> m_result.transcript]),
                                current_mom |-> generate_mom(m_env.llm),
                                current_transcript |-> m_result.transcript]
         [] OTHER -> FALSE
    /\ UNCHANGED << m_caller, m_env >>

\* both call transcribe_audio with the default max_retries
MeetingInit ==
    /\ ChunkerIdle
    /\ PipelineIdle
    /\ RunsIdle
    /\ AggregateIdle
    /\ PathsIdle
    /\ EmailIdle
    /\ TStart(DefaultMaxRetries)
    /\ m_caller \in MeetingCallers
    /\ m_pc = "transcribe"
    /\ m_env \in Environments
    /\ m_result = IF m_caller = "process_meeting_complete" THEN NoStatus ELSE NoResults
    /\ m_calls = << >>
    /\ m_session = NoSession

MeetingNext ==
    \/ TranscribeNext
    \/ /\ process_meeting_complete
       /\ UNCHANGED << chunker_vars, pipeline_vars, transcribe_vars, run_vars, aggregate_vars, path_vars, email_vars >>
    \/ /\ process_audio_file
       /\ UNCHANGED << chunker_vars, pipeline_vars, transcribe_vars, run_vars, aggregate_vars, path_vars, email_vars >>

SpecMeeting == MeetingInit /\ [][MeetingNext]_vars

\* ------------------------------------------------------- uploads of the app

RunsInit ==
    /\ ChunkerIdle
    /\ PipelineIdle
    /\ TranscribeIdle
    /\ MeetingIdle
    /\ AggregateIdle
    /\ PathsIdle
    /\ EmailIdle
    /\ \E names \in [Runs -> UploadNames] :
           runs = [r \in Runs |-> [name |-> names[r], pc |-> "save",
                                   attempt |-> 0, sent |-> << >>]]
    /\ files = [f \in UploadPaths |-> NoFile]

\* save_uploaded_file: the upload of session r is written to uploads/<name>
RunSave(r) ==
    /\ runs[r].pc = "save"
    /\ files' = [files EXCEPT ![UploadPath(runs[r].name)] = r]
    /\ runs' = [runs EXCEPT ![r].pc = "prepare"]

\* transcribe_audio, lines 61-77: `ffmpeg -y` writes the audio of a video
\* upload over <stem>.mp3; the loop is entered
RunPrepare(r) ==
    LET file_path == UploadPath(runs[r].name)
    IN  /\ runs[r].pc = "prepare"
        /\ files' = IF AudioPath(file_path) = file_path THEN files
                    ELSE [files EXCEPT ![AudioPath(file_path)] = files[file_path]]
        /\ runs' = [runs EXCEPT ![r].pc = "attempt"]

\* one iteration of the loop: the audio file is opened and sent, lines 79-85
RunAttempt(r, answer) ==
    LET out == Iteration(answer, runs[r].attempt, DefaultMaxRetries)
        audio == files[AudioPath(UploadPath(runs[r].name))]
        again == out.then = "retry" /\ NextAttempt(runs[r].attempt) < DefaultMaxRetries
    IN  /\ runs[r].pc = "attempt"
        /\ runs' = [runs EXCEPT
                       ![r].sent = Append(@, audio),
                       ![r].attempt = IF out.then = "retry" THEN NextAttempt(@) ELSE @,
                       ![r].pc = IF again THEN "attempt" ELSE "done"]
        /\ UNCHANGED files

RunsNext ==
    /\ \E r \in Runs :
           \/ RunSave(r)
           \/ RunPrepare(r)
           \/ \E answer \in WhisperAnswers : RunAttempt(r, answer)
    /\ UNCHANGED << chunker_vars, pipeline_vars, transcribe_vars, meeting_vars,
                    aggregate_vars, path_vars, email_vars >>

SpecRuns == RunsInit /\ [][RunsNext]_vars

\* ------------------------------------------------------- aggregation run again

AggregateInit ==
    /\ ChunkerIdle
    /\ PipelineIdle
    /\ TranscribeIdle
    /\ MeetingIdle
    /\ RunsIdle
    /\ PathsIdle
    /\ EmailIdle
    /\ ag_answers \in SeqsUpTo(ChunkAnswers, MaxSegments)
                      \cup {<< FullAnswer, a >> : a \in PartialAnswers}
    /\ ag_outputs = << >>

\* one more run of lines 142-192 on the same answers, after the runs so far
AggregateRun ==
    /\ Len(ag_outputs) < MaxRuns
    /\ ag_outputs' =
           Append(ag_outputs,
                  Aggregate(IF ag_outputs = << >> THEN EmptyLists
                            ELSE ag_outputs[Len(ag_outputs)],
                            ag_answers))
    /\ UNCHANGED << ag_answers, chunker_vars, pipeline_vars, transcribe_vars,
                    meeting_vars, run_vars, path_vars, email_vars >>

SpecAggregate == AggregateInit /\ [][AggregateRun]_vars

\* ------------------------------------------------------- paths of the transcript and the minutes

PathsInit ==
    /\ ChunkerIdle
    /\ PipelineIdle
    /\ TranscribeIdle
    /\ MeetingIdle
    /\ RunsIdle
    /\ AggregateIdle
    /\ EmailIdle
    /\ p_pc = "start"
    /\ p_caller \in PathCallers
    /\ \E stem \in UploadStems :
           IF p_caller = "process_audio_file"
           THEN \E type \in UploadTypes : p_file_path = SavedAs(stem, type)
           ELSE \E type \in {TranscriptSuffix, DotJson} : p_file_path = stem \o type
    /\ p_transcript_file = << >> /\ p_output_file = << >> /\ p_store = {}

\* the app derives transcript_file from the path of the recording and writes
\* the transcript to it (app.py 134-138); the script names a file that holds
\* a transcript
DeriveTranscriptFile ==
    /\ p_pc = "start"
    /\ p_transcript_file' = IF p_caller = "process_audio_file"
                            THEN AppTranscriptFile(p_file_path)
                            ELSE p_file_path
    /\ p_store' = WriteFile(p_store, p_transcript_file', "transcript")
    /\ p_pc' = "derived"
    /\ UNCHANGED << p_caller, p_file_path, p_output_file >>

\* generate_mom(transcript_file) with an answer that parses, lines 95-98
WriteMom ==
    /\ p_pc = "derived"
    /\ p_output_file' = MomOutputFile(p_transcript_file)
    /\ p_store' = WriteFile(p_store, p_output_file', "mom")
    /\ p_pc' = "written"
    /\ UNCHANGED << p_caller, p_file_path, p_transcript_file >>

PathsNext ==
    \/ DeriveTranscriptFile /\ UNCHANGED other_than_paths
    \/ WriteMom /\ UNCHANGED other_than_paths

SpecPaths == PathsInit /\ [][PathsNext]_vars

\* ------------------------------------------------------- send_mom_email

EmailInit ==
    /\ ChunkerIdle
    /\ PipelineIdle
    /\ TranscribeIdle
    /\ MeetingIdle
    /\ RunsIdle
    /\ AggregateIdle
    /\ PathsIdle
    /\ e_pc = "validate"
    /\ e_config \in MailConfigs
    /\ e_mom \in MomInputs
    /\ e_to \in RecipientInputs
    /\ e_service \in MailServices
    /\ e_sends = 0
    /\ e_out = Returned("nothing")

\* lines 277-283: the two settings are there, or an error is returned
EValidate ==
    /\ e_pc = "validate"
    /\ IF ~e_config.api_key
       THEN e_pc' = "returned" /\ e_out' = ErrorStatus("API key not configured")
       ELSE IF ~e_config.from_email
       THEN e_pc' = "returned" /\ e_out' = ErrorStatus("From email not configured")
       ELSE e_pc' = "render" /\ UNCHANGED e_out
    /\ UNCHANGED << e_config, e_mom, e_to, e_service, e_sends >>

\* lines 286-304: the mail is rendered and the recipients printed
ERender ==
    /\ e_pc = "render"
    /\ IF BeforeTry(e_to, e_mom).exc # "none"
       THEN e_pc' = "raised" /\ e_out' = BeforeTry(e_to, e_mom)
       ELSE e_pc' = "send" /\ UNCHANGED e_out
    /\ UNCHANGED << e_config, e_mom, e_to, e_service, e_sends >>

\* lines 306-338: the try block with sg.send, and its except clause
ESend ==
    /\ e_pc = "send"
    /\ e_sends' = e_sends + 1
    /\ e_out' = IF e_service = "accepts" THEN SuccessStatus
                ELSE ErrorStatus("HTTP Error")
    /\ e_pc' = "returned"
    /\ UNCHANGED << e_config, e_mom, e_to, e_service >>

EmailNext ==
    \/ EValidate /\ UNCHANGED other_than_email
    \/ ERender /\ UNCHANGED other_than_email
    \/ ESend /\ UNCHANGED other_than_email

SpecEmail == EmailInit /\ [][EmailNext]_vars

\* ------------------------------------------------------------- claims

Normal == dispatched = "generate_mom_normal"
Chunked == dispatched = "generate_mom_chunked"

\* the chunked run is past its loop / has returned
LoopOver == Chunked /\ ((pc = "chunk_loop" /\ idx > Len(chunks)) \/ pc = "done")
ChunkedDone == Chunked /\ pc = "done"

Acc ==
    [key_points |-> chunk_summaries, decisions |-> all_decisions,
     action_items |-> all_action_items, questions |-> all_questions]

\* the processing of the answer of chunk i raised
Failed(i) == ProcessChunk(EmptyLists, answers[i], i).raised
FailedSegs == {i \in 1..Len(answers) : Failed(i)}

\* the entries of key f in the answers of the chunks 1..n that did not fail
RECURSIVE EntriesOfSuccessful(_, _)
EntriesOfSuccessful(f, n) ==
    IF n = 0 THEN << >>
    ELSE EntriesOfSuccessful(f, n - 1) \o
         (IF Failed(n) \/ answers[n][f].t # "list" THEN << >>
          ELSE Items(n, answers[n][f].n))

Before(a, b) == a.seg < b.seg \/ (a.seg = b.seg /\ a.pos < b.pos)
InOrder(l) == \A k \in 1..(Len(l) - 1) : Before(l[k], l[k + 1])

InfoSize(info) ==
    Len(info.key_points) + Len(info.decisions) + Len(info.action_items)
        + Len(info.questions)

\* C1 as stated: the chunked function is called exactly when the text has more
\* than 4000 words, and the direct one for every word count of at most 4000.
C1_Original ==
    pc # "route" =>
        /\ Chunked <=> n_words > Threshold
        /\ n_words <= Threshold => Normal

\* C1, amended: for a text that is not the empty string, the chunked function is
\* called exactly when the text has more than 4000 words and the direct one
\* otherwise (4000 words: direct); the empty string returns None and calls neither.
C1_RouteByWordCount ==
    pc # "route" =>
        IF transcript_data.text = << >>
        THEN dispatched = "none" /\ pc = "done" /\ result = NoDoc /\ calls = << >>
        ELSE /\ Chunked <=> n_words > Threshold
             /\ Normal <=> n_words <= Threshold

C1_Witness == pc = "normal_call" /\ Normal /\ n_words = Threshold

\* C2: a chunk whose processing raises never ends the chunked run: every chunk
\* is called in turn, every chunk that did not fail has its entries in the
\* accumulators, the call for the minutes is made, and the run returns the
\* minutes whenever that call succeeds.
C2_SegmentFailureDoesNotAbort ==
    Chunked =>
        /\ Len(answers) = idx - 1
        /\ pc \in {"chunk_loop", "done"}
        /\ \A i \in 1..Len(answers) : \A f \in Fields :
              (~Failed(i) /\ answers[i][f].t = "list") =>
                  \A k \in 1..answers[i][f].n :
                      \E j \in 1..Len(Acc[f]) : Acc[f][j] = [seg |-> i, pos |-> k]
        /\ pc = "done" =>
              /\ Len(answers) = Len(chunks)
              /\ synth_answer # "none"
              /\ calls[Len(calls)].op = "synthesize"
              /\ result.doc <=> synth_answer = "object"

C2_Witness ==
    /\ ChunkedDone /\ Len(chunks) = 3
    /\ FailedSegs = {2}
    /\ answers[2].kind = "api_error"
    /\ result.doc
    /\ Len(all_decisions) = 2 * MaxItems

\* C3: after the loop no accumulator holds an entry of a chunk whose processing
\* raised.
C3_FailedSegmentContributesNothing ==
    LoopOver =>
        \A f \in Fields : \A k \in 1..Len(Acc[f]) : Acc[f][k].seg \notin FailedSegs

\* C4: when the call for the minutes fails, the chunked run returns None: no
\* minutes, no metadata, nothing built from the candidates.
C4_SynthesisFailureYieldsNothing ==
    (ChunkedDone /\ synth_answer # "object") => result = NoDoc

C4_Witness ==
    /\ ChunkedDone /\ synth_answer = "malformed"
    /\ FailedSegs = {} /\ Len(combined_info.decisions) > 0
    /\ result = NoDoc

\* C7: the key points given to the synthesis are the first 20 of the key points
\* of the successful chunks, in order, and the other three lists have as many
\* entries as the successful chunks answered.
C7_CandidatesOfSuccessfulSegments ==
    ChunkedDone =>
        /\ Len(combined_info.key_points) <= KeyPointCap
        /\ combined_info.key_points =
               Slice(EntriesOfSuccessful("key_points", Len(answers)), 0, KeyPointCap)
        /\ \A f \in Fields \ {"key_points"} :
               Len(combined_info[f]) = Len(EntriesOfSuccessful(f, Len(answers)))

\* C8: every accumulator, and every list given to the synthesis, is in
\* transcript order: by chunk, and within a chunk by position in its answer.
C8_TranscriptOrder ==
    \A f \in Fields : InOrder(Acc[f]) /\ InOrder(combined_info[f])

C8_Witness ==
    /\ ChunkedDone /\ FailedSegs = {2}
    /\ Len(combined_info.decisions) = 2 * MaxItems
    /\ combined_info.decisions[MaxItems].seg = 1
    /\ combined_info.decisions[MaxItems + 1].seg = 3

\* C9 as stated: the number of entries given to the synthesis is bounded by the
\* cap of the aggregation (the only cap there is: 20), whatever the chunks.
C9_Original == ChunkedDone => InfoSize(combined_info) <= KeyPointCap

\* C9, amended: only the key points given to the synthesis are capped (at 20);
\* decisions, action items and questions are given whole, so the input is the
\* capped key points plus all that the chunks accumulated.
C9_OnlyKeyPointsCapped ==
    ChunkedDone =>
        /\ Len(combined_info.key_points) <= KeyPointCap
        /\ combined_info.decisions = all_decisions
        /\ combined_info.action_items = all_action_items
        /\ combined_info.questions = all_questions
        /\ InfoSize(combined_info) =
               Min(Len(chunk_summaries), KeyPointCap) + Len(all_decisions)
                   + Len(all_action_items) + Len(all_questions)

C9_Witness ==
    /\ ChunkedDone
    /\ Len(chunk_summaries) > KeyPointCap
    /\ Len(combined_info.key_points) = KeyPointCap
    /\ InfoSize(combined_info) > KeyPointCap

\* C10: minutes that are returned say "chunked" exactly when the text has more
\* than 4000 words, and "normal" otherwise.
C10_ProcessingMethod ==
    (pc = "done" /\ result.doc) =>
        /\ result.metadata.processing_method = "chunked" <=> n_words > Threshold
        /\ result.metadata.processing_method = "normal" <=> n_words <= Threshold

C10_Witness ==
    /\ pc = "done" /\ result.doc
    /\ n_words = Threshold \div 2
    /\ result.metadata.processing_method = "normal"

\* the words of all chunks, chunk after chunk
RECURSIVE WordsOfChunks(_)
WordsOfChunks(cs) ==
    IF cs = << >> THEN << >> ELSE Split(Head(cs)) \o WordsOfChunks(Tail(cs))

CeilDiv(a, b) == (a + b - 1) \div b

\* C5: for max_words >= 1 the words of the returned chunks, chunk after chunk,
\* are exactly the words of the text: none lost, duplicated or reordered.
C5_ChunksReproduceWords ==
    (c_pc = "returned" /\ c_max >= 1) =>
        /\ c_out.exc = "none"
        /\ WordsOfChunks(c_out.val) = Split(c_text)

C5_Witness ==
    /\ c_pc = "returned" /\ c_max = 2
    /\ c_out.exc = "none" /\ Len(c_out.val) = 2
    /\ Len(Split(c_text)) = 3

\* C6: for max_words >= 1 there are ceil(wordCount / max_words) chunks, none has
\* more than max_words words, and every chunk but the last has exactly max_words.
C6_ChunkCountAndSizes ==
    (c_pc = "returned" /\ c_max >= 1) =>
        /\ c_out.exc = "none"
        /\ Len(c_out.val) = CeilDiv(Len(Split(c_text)), c_max)
        /\ \A k \in 1..Len(c_out.val) :
              /\ Len(Split(c_out.val[k])) <= c_max
              /\ k < Len(c_out.val) => Len(Split(c_out.val[k])) = c_max

C6_Witness ==
    /\ c_pc = "returned" /\ c_max = 2
    /\ c_out.exc = "none" /\ Len(c_out.val) = 2
    /\ Len(Split(c_out.val[1])) = 2 /\ Len(Split(c_out.val[2])) = 1

\* the calls made for chunk i
Attempts(i) == {k \in 1..Len(calls) : calls[k] = [op |-> "extract", seg |-> i]}

\* C11: the minutes of a chunked run say how many chunks the chunker made:
\* ceil(word count / 3000).
C11_ChunksProcessed ==
    (ChunkedDone /\ result.doc) =>
        /\ result.metadata.chunks_processed = Len(chunks)
        /\ result.metadata.chunks_processed = CeilDiv(n_words, ChunkWords)

C11_Witness ==
    /\ ChunkedDone /\ result.doc
    /\ n_words = 3 * ChunkWords
    /\ result.metadata.chunks_processed = 3

\* C12: a text that is empty or only whitespace ends the run at once: no call
\* of the text service, no minutes.
C12_BlankTranscriptRejected ==
    (n_words = 0 /\ pc # "route") =>
        pc = "done" /\ calls = << >> /\ result = NoDoc

\* C13: chunk_transcript with max_words <= 0 raises, and returns no list.
C13_NonPositiveMaxWordsRaises ==
    (c_pc = "returned" /\ c_max <= 0) => c_out.exc # "none"

\* C14: a chunk whose call failed with an error of the service is called again
\* (up to three attempts) before the loop leaves it.
C14_ChunkCallRetried ==
    \A i \in 1..Len(answers) :
        answers[i].kind = "api_error" => Cardinality(Attempts(i)) > 1

Transient == {"empty", "server_error", "rate_limit"}

\* C15: transcribe_audio makes at most max_retries calls of the service; when
\* every call fails with a transient failure it returns None after the
\* max_retries-th; and it always returns.
C15_Safety ==
    /\ Len(t_log) <= t_max
    /\ t_pc = "attempt" => t_attempt < t_max
    /\ (t_pc = "done" /\ Prepared(t_input)
            /\ \A k \in 1..Len(t_log) : t_log[k] \in Transient) =>
           Len(t_log) = t_max /\ t_result = "None"

C15_BoundedRetries == []C15_Safety /\ <>(t_pc = "done")

C15_Witness ==
    /\ t_pc = "done" /\ t_max = 3
    /\ t_log = << "server_error", "rate_limit", "empty" >>
    /\ t_result = "None"

\* C16: an attempt that fails with an error that is not transient is the last
\* one: no call of the service follows it.
C16_PermanentNotRetried ==
    \A k \in 1..(Len(t_log) - 1) : t_log[k] \notin {"permanent", "too_large"}

\* C17: once transcribe_audio has returned None, its caller returns without a
\* call of generate_mom or send_mom_email; process_meeting_complete returns
\* the three statuses None, process_audio_file a failure without minutes.
C17_FailedTranscriptionIsTerminal ==
    (t_pc = "done" /\ t_result = "None" /\ m_pc # "transcribe") =>
        /\ m_pc = "returned"
        /\ m_calls = << >>
        /\ m_caller = "process_meeting_complete" => m_result = NoStatus
        /\ m_caller = "process_audio_file" =>
               ~m_result.success /\ m_result.mom = "None" /\ m_result.error # "None"

C17_Witness ==
    /\ m_caller = "process_meeting_complete" /\ m_pc = "returned"
    /\ t_log = << "server_error", "server_error", "server_error" >>
    /\ t_result = "None" /\ m_result = NoStatus

C19_RunsIsolated ==
    \A r \in Runs :
        /\ \A k \in 1..Len(runs[r].sent) : runs[r].sent[k] = r
        /\ runs[r].pc # "save" => files[UploadPath(runs[r].name)] = r

\* C20: once the caller has asked to cancel, the chunked run issues no further
\* call and returns no document.
C20_CancelStopsCalls ==
    cancel_at # NotCancelled => Len(calls) = cancel_at /\ ~result.doc

RECURSIVE ExtractCalls(_)
ExtractCalls(n) ==
    IF n = 0 THEN << >>
    ELSE Append(ExtractCalls(n - 1), [op |-> "extract", seg |-> n])

CallsOfRun(n) == Append(ExtractCalls(n), [op |-> "synthesize", seg |-> 0])

\* C22: a chunked run over N chunks calls for chunk 1, ..., chunk N in this
\* order and then once for the minutes, N + 1 calls in all, whatever the
\* answers; what the last call is given is made of entries of the answers only.
C22_CallSequence ==
    Chunked =>
        /\ Len(calls) <= Len(chunks) + 1
        /\ calls = SubSeq(CallsOfRun(Len(chunks)), 1, Len(calls))
        /\ synth_answer # "none" <=> Len(calls) = Len(chunks) + 1
        /\ pc = "done" =>
              /\ calls = CallsOfRun(Len(chunks))
              /\ Len(answers) = Len(chunks)
              /\ \A f \in Fields : \A k \in 1..Len(combined_info[f]) :
                    LET e == combined_info[f][k]
                    IN  /\ e.seg \in 1..Len(chunks)
                        /\ answers[e.seg].kind = "object"
                        /\ answers[e.seg][f].t = "list"
                        /\ e.pos \in 1..answers[e.seg][f].n

C22_Witness ==
    /\ ChunkedDone /\ Len(chunks) = 3
    /\ FailedSegs = {1, 2, 3}
    /\ calls = CallsOfRun(3)

\* the four lists after the answers 1..n of the aggregation's input
ListsAfter(n) == AggregateFrom(EmptyLists, SubSeq(ag_answers, 1, n), 1)

\* the answer is an object in which every field is absent or a list
Partial(ans) ==
    ans.kind = "object" /\ \A f \in Fields : ans[f].t \in {"absent", "list"}

\* C23: an answer in which fields are absent or empty does not raise; each list
\* gets the entries of its field when the field is there, in order at its end,
\* and is left as it was when the field is absent or empty.
C23_AbsentFieldsAreEmpty ==
    \A k \in 1..Len(ag_outputs) :
        /\ ag_outputs[k] = ListsAfter(Len(ag_answers))
        /\ \A i \in 1..Len(ag_answers) :
              Partial(ag_answers[i]) =>
                  /\ ~ProcessChunk(ListsAfter(i - 1), ag_answers[i], i).raised
                  /\ \A f \in Fields :
                        ListsAfter(i)[f] =
                            ListsAfter(i - 1)[f] \o
                                (IF ag_answers[i][f].t = "list"
                                 THEN Items(i, ag_answers[i][f].n) ELSE << >>)

C23_Witness ==
    /\ Len(ag_outputs) = 1
    /\ ag_answers = << FullAnswer, Object(ListOf(1), Absent, ListOf(0), Absent) >>
    /\ Len(ag_outputs[1].key_points) = BigKeyPoints + 1
    /\ \A f \in Fields \ {"key_points"} : Len(ag_outputs[1][f]) = MaxItems

\* the delay claimed before the retry that follows attempt k (0-based) with
\* this answer
ClaimedBackoff(answer, k) ==
    IF answer = "rate_limit" THEN 5 * (k + 1) ELSE Pow2(k)

\* C24: every retry comes after one sleep, of 2^k seconds after a server error
\* or an empty transcript and of 5 * (k + 1) seconds after a rate limit, k
\* being the 0-based attempt that failed; the last attempt is followed by none.
C24_BackoffBeforeEveryRetry ==
    /\ Len(t_delays) = t_attempt
    /\ \A k \in 1..Len(t_delays) : t_delays[k] = ClaimedBackoff(t_log[k], k - 1)

\* C25: an attempt that gets a transcript with text is the last one, and
\* transcribe_audio returns its result; None is returned only when no attempt
\* got text.
C25_TextIsReturned ==
    \A k \in 1..Len(t_log) :
        t_log[k] = "text" =>
            Len(t_log) = k /\ t_pc = "done" /\ t_result = "result"

C27_MomNotWrittenOverTranscript ==
    p_pc = "written" =>
        /\ p_output_file # p_transcript_file
        /\ [path |-> p_transcript_file, holds |-> "transcript"] \in p_store

C30_SendNeverRaises ==
    /\ e_out.exc = "none"
    /\ e_pc # "raised"
    /\ e_pc = "returned" =>
          /\ e_out.val.status \in {"success", "error"}
          /\ e_out.val.status = "success" => e_sends = 1 /\ e_service = "accepts"
          /\ ~(e_config.api_key /\ e_config.from_email) =>
                e_sends = 0 /\ e_out.val.status = "error"
====
